---- MODULE Spec2Model ----
(***************************************************************************)
(* A model of april-core's provider layer: the decoder of a declared       *)
(* backend configuration (AnthropicModel's Deserialize), the request       *)
(* shaping and response classification of AnthropicModel::create,          *)
(* AnthropicModel::inference, the marshaling of the wire request, the      *)
(* fluent mutators of LanguageModelPrompt, bedrock_client's resolution of  *)
(* credentials and region, and the Display of Image and Message.           *)
(*                                                                         *)
(* Rust's Option<T> is a sequence of length at most one: None is <<>> and  *)
(* Some(x) is <<x>>.  A String is a TLA+ string; a base64 text is the      *)
(* sequence of its symbols (0..63 the sextets, 64 the pad '=', 65 a        *)
(* character outside the alphabet); a byte vector is a sequence of 0..255. *)
(***************************************************************************)
EXTENDS Integers, Sequences, FiniteSets, TLC

VARIABLES
    feature_aws_bedrock, \* cfg!(feature = "aws-bedrock") of the build
    payload,             \* the configuration map handed to the decoder
    decoded,             \* the decoder's outcome
    clients,             \* the transport clients built so far
    self,                \* Option: the AnthropicModel constructed
    prompt,              \* the LanguageModelPrompt handed to the facade
    call,                \* the call whose outcome the caller holds
    request,             \* Option: the wire request that call built
    wire,                \* the transport's answer to that request
    created,             \* Option: what create returned to it
    result,              \* Option: what inference returned to it
    json_body,           \* Option: the marshaled body that call sent
    calls,               \* the constructor and mutator calls that built prompt
    ambient,             \* what aws_config::load_from_env() resolves to
    sdk_config,          \* Option: the SdkConfig the Bedrock client was built on
    rendered             \* Option: the text a Display call wrote

vars == <<feature_aws_bedrock, payload, decoded, clients, self, prompt, call,
          request, wire, created, result, json_body, calls, ambient, sdk_config,
          rendered>>

None == <<>>
Some(x) == <<x>>
IsSome(o) == o # <<>>
Unwrap(o) == o[1]

(***************************************************************************)
(* Bounds of the model.                                                    *)
(***************************************************************************)
MaxKeys == 3      \* entries of a configuration map
MaxBlocks == 2    \* content blocks of a reply
MaxNew == 2       \* new content blocks handed to create
MaxPrior == 1     \* turns of a prior conversation handed to create
MaxCalls == 4     \* calls in the chain that builds a Prompt, From included
MaxBytes == 3     \* bytes of an image that is rendered

(***************************************************************************)
(* BASE64_STANDARD: the padded standard alphabet, canonical padding and    *)
(* zero trailing bits required on decode.                                  *)
(***************************************************************************)
Pad == 64

RECURSIVE Base64Encode(_)
Base64Encode(bytes) ==
    IF Len(bytes) = 0 THEN <<>>
    ELSE IF Len(bytes) = 1 THEN
        <<bytes[1] \div 4, (bytes[1] % 4) * 16, Pad, Pad>>
    ELSE IF Len(bytes) = 2 THEN
        <<bytes[1] \div 4,
          (bytes[1] % 4) * 16 + bytes[2] \div 16,
          (bytes[2] % 16) * 4,
          Pad>>
    ELSE
        <<bytes[1] \div 4,
          (bytes[1] % 4) * 16 + bytes[2] \div 16,
          (bytes[2] % 16) * 4 + bytes[3] \div 64,
          bytes[3] % 64>>
        \o Base64Encode(SubSeq(bytes, 4, Len(bytes)))

IsSextet(c) == c \in 0..63

\* Result<Vec<u8>, DecodeError>
RECURSIVE Base64Decode(_)
Base64Decode(text) ==
    IF Len(text) = 0 THEN [ok |-> TRUE, data |-> <<>>]
    ELSE IF Len(text) < 4 THEN [ok |-> FALSE, data |-> <<>>]
    ELSE LET a == text[1]
             b == text[2]
             c == text[3]
             d == text[4]
             last == Len(text) = 4
         IN  IF ~(IsSextet(a) /\ IsSextet(b)) THEN [ok |-> FALSE, data |-> <<>>]
             ELSE IF c = Pad THEN
                 IF last /\ d = Pad /\ b % 16 = 0
                 THEN [ok |-> TRUE, data |-> <<a * 4 + b \div 16>>]
                 ELSE [ok |-> FALSE, data |-> <<>>]
             ELSE IF ~IsSextet(c) THEN [ok |-> FALSE, data |-> <<>>]
             ELSE IF d = Pad THEN
                 IF last /\ c % 4 = 0
                 THEN [ok |-> TRUE,
                       data |-> <<a * 4 + b \div 16, (b % 16) * 16 + c \div 4>>]
                 ELSE [ok |-> FALSE, data |-> <<>>]
             ELSE IF ~IsSextet(d) THEN [ok |-> FALSE, data |-> <<>>]
             ELSE LET rest == Base64Decode(SubSeq(text, 5, Len(text)))
                  IN  IF rest.ok
                      THEN [ok |-> TRUE,
                            data |-> <<a * 4 + b \div 16,
                                       (b % 16) * 16 + c \div 4,
                                       (c % 4) * 64 + d>> \o rest.data]
                      ELSE [ok |-> FALSE, data |-> <<>>]

(***************************************************************************)
(* The decoder of a declared configuration: Deserialize for AnthropicModel.*)
(* A map entry is its key and whether its value decodes as the field's     *)
(* type; the value a well-typed entry carries is WireValue(key).           *)
(* The decoder is modelled from the point where the deserializer hands     *)
(* visit_map the configuration map, entry by entry.                        *)
(***************************************************************************)
Field == {"api_key", "aws_config", "api_version", "model", "max_tokens",
          "temperature", "stop_sequences", "system"}

\* a key the field identifier does not know
OtherKeys == {"provider_hint"}

Entries == [key : Field \cup OtherKeys, valid : BOOLEAN]

Payloads == UNION {[1..n -> Entries] : n \in 0..MaxKeys}

DefaultMaxTokens == 1024
DefaultTemperature == 63      \* 0.63, in hundredths

WireValue(key) ==
    CASE key = "api_key" -> "sk-x"
      [] key = "aws_config" -> [kind |-> "Profile", profile_name |-> Some("p"),
                                access_key |-> None, secret_key |-> None,
                                region |-> None]
      [] key = "api_version" -> "2023-06-01"
      [] key = "model" -> "claude-3"
      [] key = "max_tokens" -> 2048
      [] key = "temperature" -> 10
      [] key = "stop_sequences" -> <<"END">>
      [] key = "system" -> "be brief"

NoFields == [k \in Field |-> None]

DeError(kind, what) == [kind |-> kind, what |-> what]
NoError == DeError("", "")
BothPresent == DeError("custom", "both api_key and aws_config should not be present")

\* the aws_config arm without its test of api_key
KeyErrorOneSided(key, fields, feature) ==
    IF key = "api_key" THEN
        IF IsSome(fields["aws_config"]) THEN BothPresent
        ELSE IF IsSome(fields["api_key"]) THEN DeError("duplicate_field", key)
        ELSE NoError
    ELSE IF key = "aws_config" THEN
        IF ~feature THEN DeError("unknown_field", key)
        ELSE IF IsSome(fields["aws_config"]) THEN DeError("duplicate_field", key)
        ELSE NoError
    ELSE IF IsSome(fields[key]) THEN DeError("duplicate_field", key)
    ELSE NoError

\* the early return of a match arm, taken before the entry's value is read
KeyError(key, fields, feature) ==
    IF key = "api_key" THEN
        IF IsSome(fields["aws_config"]) THEN BothPresent
        ELSE IF IsSome(fields["api_key"]) THEN DeError("duplicate_field", key)
        ELSE NoError
    ELSE IF key = "aws_config" THEN
        IF ~feature THEN DeError("unknown_field", key)
        ELSE IF IsSome(fields["api_key"]) THEN BothPresent
        ELSE IF IsSome(fields["aws_config"]) THEN DeError("duplicate_field", key)
        ELSE NoError
    ELSE IF IsSome(fields[key]) THEN DeError("duplicate_field", key)
    ELSE NoError

\* the while-let loop of visit_map from entry i on; fields holds the Options
\* filled so far
RECURSIVE VisitLoop(_, _, _, _)
VisitLoop(map, i, fields, feature) ==
    IF i > Len(map) THEN [err |-> NoError, fields |-> fields]
    ELSE LET key == map[i].key
             fail(e) == [err |-> e, fields |-> fields]
         IN  IF key \notin Field THEN fail(DeError("unknown_field", key))
             ELSE IF KeyError(key, fields, feature) # NoError
                  THEN fail(KeyError(key, fields, feature))
             ELSE IF ~map[i].valid THEN fail(DeError("invalid_type", key))
             ELSE VisitLoop(map, i + 1,
                            [fields EXCEPT ![key] = Some(WireValue(key))],
                            feature)

OrDefault(o, d) == IF IsSome(o) THEN Unwrap(o) ELSE d

Failed(e, built) == [state |-> "Failed", err |-> e, model |-> None, built |-> built]

\* the fields the two variants share, once api_version and model are known
Settings(fields) ==
    [api_version |-> Unwrap(fields["api_version"]),
     model |-> Unwrap(fields["model"]),
     max_tokens |-> OrDefault(fields["max_tokens"], DefaultMaxTokens),
     temperature |-> OrDefault(fields["temperature"], DefaultTemperature),
     stop_sequences |-> OrDefault(fields["stop_sequences"], <<>>),
     system |-> fields["system"]]

AnthropicVariant(api_key, s) ==
    [variant |-> "Anthropic", api_key |-> Some(api_key), aws_config |-> None,
     api_version |-> s.api_version, model |-> s.model,
     max_tokens |-> s.max_tokens, temperature |-> s.temperature,
     stop_sequences |-> s.stop_sequences, system |-> s.system,
     client |-> "http"]

BedrockVariant(aws_config, s) ==
    [variant |-> "Bedrock", api_key |-> None, aws_config |-> aws_config,
     api_version |-> s.api_version, model |-> s.model,
     max_tokens |-> s.max_tokens, temperature |-> s.temperature,
     stop_sequences |-> s.stop_sequences, system |-> s.system,
     client |-> "bedrock"]

MissingRequired(fields) ==
    IF ~IsSome(fields["api_version"]) THEN DeError("missing_field", "api_version")
    ELSE IF ~IsSome(fields["model"]) THEN DeError("missing_field", "model")
    ELSE NoError

\* the construction failing for want of api_key whatever the build
BuildVariantKeyOnly(fields, feature, runtime_ok) ==
    IF IsSome(fields["api_key"]) THEN
        IF MissingRequired(fields) # NoError THEN Failed(MissingRequired(fields), {})
        ELSE [state |-> "DirectApiReady", err |-> NoError,
              model |-> Some(AnthropicVariant(Unwrap(fields["api_key"]), Settings(fields))),
              built |-> {"http"}]
    ELSE Failed(DeError("missing_field", "api_key"), {})

\* the variant construction after the loop; runtime_ok is whether
\* tokio::runtime::Runtime::new() succeeds
BuildVariant(fields, feature, runtime_ok) ==
    IF IsSome(fields["api_key"]) THEN
        IF MissingRequired(fields) # NoError THEN Failed(MissingRequired(fields), {})
        ELSE [state |-> "DirectApiReady", err |-> NoError,
              model |-> Some(AnthropicVariant(Unwrap(fields["api_key"]), Settings(fields))),
              built |-> {"http"}]
    ELSE IF feature THEN
        IF ~runtime_ok THEN Failed(DeError("custom", "runtime"), {})
        ELSE IF MissingRequired(fields) # NoError
             THEN Failed(MissingRequired(fields), {"bedrock"})
        ELSE [state |-> "ManagedRuntimeReady", err |-> NoError,
              model |-> Some(BedrockVariant(fields["aws_config"], Settings(fields))),
              built |-> {"bedrock"}]
    ELSE Failed(DeError("missing_field", "api_key"), {})

visit_map(map, feature, runtime_ok) ==
    LET loop == VisitLoop(map, 1, NoFields, feature)
    IN  IF loop.err # NoError THEN Failed(loop.err, {})
        ELSE BuildVariant(loop.fields, feature, runtime_ok)

Unconfigured == [state |-> "Unconfigured", err |-> NoError, model |-> None, built |-> {}]

(***************************************************************************)
(* Content: lib.rs's Image and Message, and the wire-level content blocks. *)
(***************************************************************************)
Image_new(media_type, data) == [media_type |-> media_type, data |-> data]

MessageText(text) == [type |-> "text", text |-> text, image |-> None]
MessageImage(image) == [type |-> "image", text |-> "", image |-> Some(image)]

AnthropicImageContent_new(media_type, data) ==
    [encoding |-> "base64", media_type |-> media_type, data |-> data]

\* impl From<Image> for AnthropicImageContent
ImageContentFrom(image) ==
    AnthropicImageContent_new(image.media_type, Base64Encode(image.data))

\* The text a Display impl writes is the sequence of its characters.
\* Alphabet[s + 1] is the character of base64 symbol s.
Alphabet ==
    <<"A", "B", "C", "D", "E", "F", "G", "H", "I", "J", "K", "L", "M",
      "N", "O", "P", "Q", "R", "S", "T", "U", "V", "W", "X", "Y", "Z",
      "a", "b", "c", "d", "e", "f", "g", "h", "i", "j", "k", "l", "m",
      "n", "o", "p", "q", "r", "s", "t", "u", "v", "w", "x", "y", "z",
      "0", "1", "2", "3", "4", "5", "6", "7", "8", "9", "+", "/", "=">>

\* the String that BASE64_STANDARD.encode returns, character by character
EncodedText(symbols) == [i \in 1..Len(symbols) |-> Alphabet[symbols[i] + 1]]

\* the characters of the media types and texts that are rendered
Chars(str) ==
    CASE str = "image/png" -> <<"i", "m", "a", "g", "e", "/", "p", "n", "g">>
      [] str = "image/jpeg" -> <<"i", "m", "a", "g", "e", "/", "j", "p", "e", "g">>
      [] str = "hi" -> <<"h", "i">>
      [] str = "more" -> <<"m", "o", "r", "e">>
      [] str = "" -> <<>>

\* impl Display for Image: write!(f, "data:{};base64, {}", media_type, encoded)
Image_fmt(image) ==
    <<"d", "a", "t", "a", ":">>
    \o Chars(image.media_type)
    \o <<";", "b", "a", "s", "e", "6", "4", ",", " ">>
    \o EncodedText(Base64Encode(image.data))

\* impl Display for Message
Message_fmt(message) ==
    IF message.type = "image" THEN Image_fmt(Unwrap(message.image))
    ELSE Chars(message.text)

ContentText(text) == [type |-> "text", text |-> text, source |-> None]
ContentImage(source) == [type |-> "image", text |-> "", source |-> Some(source)]

(***************************************************************************)
(* LanguageModelPrompt (model.rs) and its fluent mutators.                 *)
(***************************************************************************)
PromptFrom(message) ==
    [max_tokens |-> DefaultMaxTokens,
     messages |-> <<message>>,
     temperature |-> DefaultTemperature,
     stop_sequences |-> <<>>,
     system |-> None]

\* the new message put before the earlier ones
Prompt_add_message_first(p, message) == [p EXCEPT !.messages = <<message>> \o p.messages]

Prompt_add_message(p, message) == [p EXCEPT !.messages = Append(p.messages, message)]
Prompt_max_tokens(p, max_tokens) == [p EXCEPT !.max_tokens = max_tokens]
Prompt_temperature(p, temperature) == [p EXCEPT !.temperature = temperature]
Prompt_stop_sequence(p, stop_sequence) ==
    [p EXCEPT !.stop_sequences = Append(p.stop_sequences, stop_sequence)]
\* the system prompt set and the stop sequences dropped
Prompt_system_resetting(p, system) ==
    [p EXCEPT !.system = Some(system), !.stop_sequences = <<>>]

Prompt_system(p, system) == [p EXCEPT !.system = Some(system)]

\* One call of the Prompt's interface, as the caller wrote it: the constructor
\* (op "from") or a mutator, with its argument in the field of its type.
Called(op, message, number, text) ==
    [op |-> op, message |-> message, number |-> number, text |-> text]

\* the Prompt a mutator call returns, given the Prompt it took
Apply(p, c) ==
    CASE c.op = "add_message" -> Prompt_add_message(p, Unwrap(c.message))
      [] c.op = "max_tokens" -> Prompt_max_tokens(p, Unwrap(c.number))
      [] c.op = "temperature" -> Prompt_temperature(p, Unwrap(c.number))
      [] c.op = "stop_sequence" -> Prompt_stop_sequence(p, Unwrap(c.text))
      [] c.op = "system" -> Prompt_system(p, Unwrap(c.text))

\* the Prompt a chain of calls builds: From, then each mutator in turn
RECURSIVE Replay(_)
Replay(log) ==
    IF Len(log) = 1 THEN PromptFrom(Unwrap(log[1].message))
    ELSE Apply(Replay(SubSeq(log, 1, Len(log) - 1)), log[Len(log)])

(***************************************************************************)
(* AnthropicModel: constructors and builder methods.                       *)
(***************************************************************************)
AnthropicModel_new(api_key, api_version, model) ==
    [variant |-> "Anthropic", api_key |-> Some(api_key), aws_config |-> None,
     api_version |-> api_version, model |-> model,
     max_tokens |-> DefaultMaxTokens, temperature |-> DefaultTemperature,
     stop_sequences |-> <<>>, system |-> None, client |-> "http"]

AnthropicModel_bedrock(api_version, model, aws_config) ==
    [variant |-> "Bedrock", api_key |-> None, aws_config |-> aws_config,
     api_version |-> api_version, model |-> model,
     max_tokens |-> DefaultMaxTokens, temperature |-> DefaultTemperature,
     stop_sequences |-> <<>>, system |-> None, client |-> "bedrock"]

Model_max_tokens(m, max_tokens) == [m EXCEPT !.max_tokens = max_tokens]
Model_temperature(m, temperature) == [m EXCEPT !.temperature = temperature]
Model_stop_sequences(m, stop_sequences) == [m EXCEPT !.stop_sequences = stop_sequences]
Model_system(m, system) == [m EXCEPT !.system = Some(system)]

(***************************************************************************)
(* bedrock.rs: AwsConfig and the resolution of the Bedrock client's        *)
(* credentials and region.  env is what the process environment resolves   *)
(* to: the credentials the default provider chain finds, and its region.   *)
(***************************************************************************)
AwsConfig_Profile(profile_name, region) ==
    [kind |-> "Profile", profile_name |-> Some(profile_name),
     access_key |-> None, secret_key |-> None, region |-> region]

AwsConfig_Credential(access_key, secret_key, region) ==
    [kind |-> "Credential", profile_name |-> None,
     access_key |-> access_key, secret_key |-> secret_key, region |-> region]

\* the credentials provider of aws_config::load_from_env()
DefaultChain(env) ==
    [provider |-> "DefaultChain", origin |-> env.credentials,
     profile_name |-> None, access_key |-> None, secret_key |-> None]

ProfileFileCredentialsProvider(profile_name) ==
    [provider |-> "ProfileFile", origin |-> "Profile",
     profile_name |-> Some(profile_name), access_key |-> None, secret_key |-> None]

\* the static provider; its credentials carry the name "ArgumentVariable"
CredentialParams(access_key, secret_key) ==
    [provider |-> "Static", origin |-> "ArgumentVariable",
     profile_name |-> None, access_key |-> Some(access_key),
     secret_key |-> Some(secret_key)]

load_from_env(env) == [credentials |-> DefaultChain(env), region |-> env.region]

\* the region of the environment kept whatever the configuration says
BuilderRegionKept(loaded, region) == loaded

\* builder.region(..) when the configuration names a region
BuilderRegion(loaded, region) ==
    IF IsSome(region) THEN [loaded EXCEPT !.region = region] ELSE loaded

bedrock_client(aws_config, env) ==
    LET loaded == load_from_env(env)
    IN  IF ~IsSome(aws_config) THEN loaded
        ELSE LET c == Unwrap(aws_config)
             IN  IF c.kind = "Credential" THEN
                     IF (IsSome(c.access_key) /\ IsSome(c.secret_key)) \/ IsSome(c.region)
                     THEN BuilderRegion(
                              IF IsSome(c.access_key) /\ IsSome(c.secret_key)
                              THEN [loaded EXCEPT !.credentials =
                                       CredentialParams(Unwrap(c.access_key),
                                                        Unwrap(c.secret_key))]
                              ELSE loaded,
                              c.region)
                     ELSE loaded
                 ELSE BuilderRegion(
                          [loaded EXCEPT !.credentials =
                              ProfileFileCredentialsProvider(Unwrap(c.profile_name))],
                          c.region)

(***************************************************************************)
(* The wire reply.  A body is abstracted to what serde reads of it:        *)
(* whether it is JSON at all, its "type" tag, its "error" object if any,   *)
(* whether the scalar fields of a message (id, model, role, stop_reason,   *)
(* usage) are there and well typed, and its "content" array if any.        *)
(***************************************************************************)
Body(json, type, error, head, content) ==
    [json |-> json, type |-> type, error |-> error, head |-> head, content |-> content]

SerdeErr(text) == [ok |-> FALSE, err |-> text, response |-> None]

ResponseError(error) == [tag |-> "Error", error |-> Some(error), message |-> None]
ResponseMessage(message) == [tag |-> "Message", error |-> None, message |-> Some(message)]

AnthropicMessageResponse(content) ==
    [id |-> "msg_01", model |-> "claude-3", role |-> "assistant",
     stop_reason |-> "end_turn", stop_sequence |-> None,
     usage |-> [input_tokens |-> 10, output_tokens |-> 25],
     content |-> content]

\* serde_json's decoding of a body as the internally tagged AnthropicResponse
DecodeResponse(body) ==
    IF ~body.json THEN SerdeErr("expected value at line 1 column 1")
    ELSE IF body.type = "" THEN SerdeErr("missing field type")
    ELSE IF body.type = "error" THEN
        IF IsSome(body.error)
        THEN [ok |-> TRUE, err |-> "", response |-> Some(ResponseError(Unwrap(body.error)))]
        ELSE SerdeErr("missing field error")
    ELSE IF body.type = "message" THEN
        IF ~body.head THEN SerdeErr("missing field id")
        ELSE IF ~IsSome(body.content) THEN SerdeErr("missing field content")
        ELSE IF \E i \in 1..Len(Unwrap(body.content)) :
                    Unwrap(body.content)[i].type \notin {"text", "image"}
             THEN SerdeErr("unknown variant, expected image or text")
        ELSE [ok |-> TRUE, err |-> "",
              response |-> Some(ResponseMessage(AnthropicMessageResponse(Unwrap(body.content))))]
    ELSE SerdeErr("unknown variant, expected error or message")

\* Display of a reqwest StatusCode
StatusText(status) ==
    CASE status = 200 -> "200 OK"
      [] status = 204 -> "204 No Content"
      [] status = 304 -> "304 Not Modified"
      [] status = 404 -> "404 Not Found"
      [] status = 529 -> "529 <unknown status code>"
      [] OTHER -> ToString(status)

is_client_error(status) == status >= 400 /\ status < 500
is_server_error(status) == status >= 500 /\ status < 600

(***************************************************************************)
(* AnthropicModel::create.                                                 *)
(***************************************************************************)
AnthropicMessage(role, content) == [role |-> role, content |-> content]
Single(block) == [shape |-> "Single", blocks |-> <<block>>]
Multiple(blocks) == [shape |-> "Multiple", blocks |-> blocks]

\* the new content always sent as a list
RequestMessagesAlwaysList(messages, conversation) ==
    LET prior == IF IsSome(conversation) THEN Unwrap(conversation) ELSE <<>>
    IN  IF Len(messages) = 0 THEN prior
        ELSE Append(prior, [role |-> "user",
                            content |-> [shape |-> "Multiple", blocks |-> messages]])

\* lines 428-436: the prior conversation, then the new content as one turn
RequestMessages(messages, conversation) ==
    LET prior == IF IsSome(conversation) THEN Unwrap(conversation) ELSE <<>>
    IN  IF Len(messages) = 0 THEN prior
        ELSE IF Len(messages) = 1
             THEN Append(prior, AnthropicMessage("user", Single(messages[1])))
        ELSE Append(prior, AnthropicMessage("user", Multiple(messages)))

\* the AnthropicRequest of each variant
BuildRequest(m, request_messages) ==
    [anthropic_version |-> IF m.variant = "Anthropic" THEN None ELSE Some(m.api_version),
     model |-> IF m.variant = "Anthropic" THEN Some(m.model) ELSE None,
     max_tokens |-> m.max_tokens,
     stop_sequences |-> m.stop_sequences,
     system |-> m.system,
     temperature |-> m.temperature,
     messages |-> request_messages]

AnthropicErrorResponse(error_type, message) == [error_type |-> error_type, message |-> message]

CreateOk(message) == [ok |-> TRUE, message |-> Some(message), error |-> None]
CreateErr(error) == [ok |-> FALSE, message |-> None, error |-> Some(error)]

\* the envelope's two strings taken for one another
EnvelopeErrorSwapped(error) == AnthropicErrorResponse(error.message, error.type)

\* an error envelope's error object as the AnthropicErrorResponse it decodes to
EnvelopeError(error) == AnthropicErrorResponse(error.type, error.message)

\* the transport's error text dropped
HttpSendErrorNoText(err) == AnthropicErrorResponse("request_error", "")

\* line 479: reqwest's send() failed
HttpSendError(err) == AnthropicErrorResponse("request_error", err)

\* line 512: the SDK's send() failed
SdkSendError(err) == AnthropicErrorResponse("bedrock_sdk_error", err)

\* a body that does not decode reported as a failure to send
InvalidResponseAsRequest(err) == AnthropicErrorResponse("request_error", err)

\* lines 468, 475, 510: the body does not decode as AnthropicResponse
InvalidResponse(err) == AnthropicErrorResponse("invalid_response_error", err)

\* every 2xx status taken for success
StatusArmAnySuccess(status) ==
    IF status >= 200 /\ status < 300 THEN "ok"
    ELSE IF is_client_error(status) \/ is_server_error(status) THEN "error"
    ELSE "other"

\* the arm of the match on response.status() that a status takes
StatusArm(status) ==
    IF status = 200 THEN "ok"
    ELSE IF is_client_error(status) \/ is_server_error(status) THEN "error"
    ELSE "other"

\* lines 461-480: the direct path, driven by the HTTP status
ClassifyHttp(response) ==
    IF ~response.sent THEN CreateErr(HttpSendError(response.err))
    ELSE LET parsed == DecodeResponse(response.body)
             invalid == CreateErr(InvalidResponse(parsed.err))
         IN  IF StatusArm(response.status) = "ok" THEN
                 IF ~parsed.ok THEN invalid
                 ELSE IF Unwrap(parsed.response).tag = "Error"
                      THEN CreateErr(EnvelopeError(Unwrap(Unwrap(parsed.response).error)))
                 ELSE CreateOk(Unwrap(Unwrap(parsed.response).message))
             ELSE IF StatusArm(response.status) = "error" THEN
                 IF ~parsed.ok THEN invalid
                 ELSE IF Unwrap(parsed.response).tag = "Error"
                      THEN CreateErr(EnvelopeError(Unwrap(Unwrap(parsed.response).error)))
                 ELSE CreateErr(InvalidResponse(
                                    ToString(Unwrap(Unwrap(parsed.response).message))))
             ELSE CreateErr(AnthropicErrorResponse("invalid_status_error",
                                                   StatusText(response.status)))

\* lines 504-513: the managed-runtime path, driven by the payload
ClassifySdk(response) ==
    IF ~response.sent THEN CreateErr(SdkSendError(response.err))
    ELSE LET parsed == DecodeResponse(response.body)
         IN  IF ~parsed.ok
             THEN CreateErr(InvalidResponse(parsed.err))
             ELSE IF Unwrap(parsed.response).tag = "Error"
                  THEN CreateErr(EnvelopeError(Unwrap(Unwrap(parsed.response).error)))
             ELSE CreateOk(Unwrap(Unwrap(parsed.response).message))

Classify(m, response) ==
    IF m.variant = "Anthropic" THEN ClassifyHttp(response) ELSE ClassifySdk(response)

(***************************************************************************)
(* serde's serialization of an AnthropicRequest: a JSON object is the      *)
(* function from the keys it has to their values, a JSON array a sequence. *)
(***************************************************************************)
\* AnthropicImageContent: encoding is renamed to "type"
MarshalImageContent(source) ==
    [type |-> source.encoding, media_type |-> source.media_type, data |-> source.data]

\* AnthropicContent, internally tagged by "type"
MarshalContent(block) ==
    IF block.type = "image"
    THEN [type |-> "image", source |-> MarshalImageContent(Unwrap(block.source))]
    ELSE [type |-> "text", text |-> block.text]

\* AnthropicMessageContent is untagged: one object, or an array of them
MarshalMessageContent(content) ==
    IF content.shape = "Single" THEN MarshalContent(content.blocks[1])
    ELSE [i \in 1..Len(content.blocks) |-> MarshalContent(content.blocks[i])]

MarshalMessage(message) ==
    [role |-> message.role, content |-> MarshalMessageContent(message.content)]

\* stop_sequences written whatever its length
RequestKeysAlwaysStop(sent) ==
    {"max_tokens", "messages", "temperature", "stop_sequences"}
    \cup (IF IsSome(sent.anthropic_version) THEN {"anthropic_version"} ELSE {})
    \cup (IF IsSome(sent.model) THEN {"model"} ELSE {})
    \cup (IF IsSome(sent.system) THEN {"system"} ELSE {})

\* the skip_serializing_if attributes of AnthropicRequest: the keys written
RequestKeys(sent) ==
    {"max_tokens", "messages", "temperature"}
    \cup (IF IsSome(sent.anthropic_version) THEN {"anthropic_version"} ELSE {})
    \cup (IF IsSome(sent.model) THEN {"model"} ELSE {})
    \cup (IF sent.stop_sequences = <<>> THEN {} ELSE {"stop_sequences"})
    \cup (IF IsSome(sent.system) THEN {"system"} ELSE {})

\* .json(&request) on the direct path, serde_json::to_vec(&request) on Bedrock
Marshal(sent) ==
    [k \in RequestKeys(sent) |->
        CASE k = "anthropic_version" -> Unwrap(sent.anthropic_version)
          [] k = "model" -> Unwrap(sent.model)
          [] k = "max_tokens" -> sent.max_tokens
          [] k = "messages" ->
                [i \in 1..Len(sent.messages) |-> MarshalMessage(sent.messages[i])]
          [] k = "stop_sequences" -> sent.stop_sequences
          [] k = "system" -> Unwrap(sent.system)
          [] k = "temperature" -> sent.temperature]

create(m, messages, conversation, response) ==
    LET sent == BuildRequest(m, RequestMessages(messages, conversation))
    IN  [request |-> sent,
         body |-> Marshal(sent),
         result |-> Classify(m, response)]

(***************************************************************************)
(* AnthropicModel::inference.                                              *)
(***************************************************************************)
Error(variant, text) == [variant |-> variant, text |-> text]
InferenceOk(message) == [ok |-> TRUE, message |-> Some(message), error |-> None]
InferenceErr(error) == [ok |-> FALSE, message |-> None, error |-> Some(error)]

\* lines 522-526: the content blocks handed to create
InferenceContent(text, image) ==
    (IF IsSome(image) THEN <<ContentImage(ImageContentFrom(Unwrap(image)))>> ELSE <<>>)
    \o <<ContentText(text)>>

\* the last block read instead of the first
LastBlock(content) == IF Len(content) = 0 THEN None ELSE Some(content[Len(content)])

\* the block inference reads of a reply
FirstBlock(content) == IF Len(content) = 0 THEN None ELSE Some(content[1])

\* lines 532-541: Option<Message> of a reply's content
ReplyMessage(content) ==
    LET first == FirstBlock(content)
    IN  IF ~IsSome(first) THEN None
        ELSE IF Unwrap(first).type = "image" THEN
            LET source == Unwrap(Unwrap(first).source)
                bytes == Base64Decode(source.data)
            IN  IF bytes.ok
                THEN Some(MessageImage(Image_new(source.media_type, bytes.data)))
                ELSE None
        ELSE Some(MessageText(Unwrap(first).text))

\* a reply without a usable block answered with an empty text
InferenceResultDefaulting(res) ==
    IF res.ok THEN
        LET message == ReplyMessage(Unwrap(res.message).content)
        IN  IF IsSome(message) THEN InferenceOk(Unwrap(message))
            ELSE InferenceOk(MessageText(""))
    ELSE InferenceErr(Error("ModelResponse", Unwrap(res.error).message))

\* lines 542-551: the Result<Message, Error> of a create result
InferenceResult(res) ==
    IF res.ok THEN
        LET message == ReplyMessage(Unwrap(res.message).content)
        IN  IF IsSome(message) THEN InferenceOk(Unwrap(message))
            ELSE InferenceErr(Error("Unexpected", "no-content"))
    ELSE InferenceErr(Error("ModelResponse", Unwrap(res.error).message))

(***************************************************************************)
(* The inputs the operations are run on.                                   *)
(***************************************************************************)
Seqs(S, n) == UNION {[1..k -> S] : k \in 0..n}

Png == Image_new("image/png", <<0, 1, 2>>)
Jpeg == Image_new("image/jpeg", <<255>>)

\* base64 texts no byte vector encodes to: a length that is no multiple of
\* four, a character outside the alphabet, non-zero trailing bits
BadLength == <<0, 0, 4>>
BadSymbol == <<0, 65, 4, 2>>
BadTrailingBits == <<63, 49, Pad, Pad>>

ToolUse == [type |-> "tool_use", text |-> "", source |-> None]

ReplyBlocks ==
    {ContentText("hello"), ContentText("bye"),
     ContentImage(ImageContentFrom(Png)),
     ContentImage(AnthropicImageContent_new("image/png", BadSymbol))}

ReplyContents(n) ==
    Seqs(ReplyBlocks, n)
    \cup {<<ContentImage(ImageContentFrom(Jpeg))>>,
          <<ContentImage(AnthropicImageContent_new("image/png", BadLength))>>,
          <<ContentImage(AnthropicImageContent_new("image/jpeg", BadTrailingBits))>>,
          <<ToolUse>>}

EnvelopeErrors ==
    {[type |-> "overloaded_error", message |-> "busy"],
     [type |-> "authentication_error", message |-> "invalid x-api-key"]}

Bodies(n) ==
    {Body(FALSE, "", None, FALSE, None),                       \* not JSON
     Body(TRUE, "", None, FALSE, None),                        \* no type tag
     Body(TRUE, "ping", None, FALSE, None),                    \* an unknown tag
     Body(TRUE, "error", None, FALSE, None),                   \* no error object
     Body(TRUE, "message", None, TRUE, None),                  \* no content array
     Body(TRUE, "message", None, FALSE, Some(<<ContentText("hello")>>))}
    \cup {Body(TRUE, "error", Some(e), FALSE, None) : e \in EnvelopeErrors}
    \cup {Body(TRUE, "message", None, TRUE, Some(c)) : c \in ReplyContents(n)}

Statuses == {200, 204, 304, 404, 529}

\* what reqwest's send() yields
HttpResponses(n) ==
    {[sent |-> FALSE, err |-> "error sending request for url", status |-> 200,
      body |-> Body(FALSE, "", None, FALSE, None)]}
    \cup [sent : {TRUE}, err : {""}, status : Statuses, body : Bodies(n)]

\* what the SDK's invoke_model().send() yields
SdkResponses(n) ==
    {[sent |-> FALSE, err |-> "dispatch failure", body |-> Body(FALSE, "", None, FALSE, None)]}
    \cup [sent : {TRUE}, err : {""}, body : Bodies(n)]

\* the replies to a request of model m, with at most n content blocks
Responses(m, n) ==
    IF m.variant = "Anthropic" THEN HttpResponses(n) ELSE SdkResponses(n)

\* the call chains a caller builds its Prompt with
PromptLogs ==
    {<<Called("from", Some(MessageText("hi")), None, None)>>,
     <<Called("from", Some(MessageText("hi")), None, None),
       Called("max_tokens", None, Some(256), None),
       Called("temperature", None, Some(100), None),
       Called("stop_sequence", None, None, Some("STOP")),
       Called("system", None, None, Some("be terse"))>>}

\* the prompts a caller hands to the facade
PromptInputs == {Replay(log) : log \in PromptLogs}

ImageArgs == {None, Some(Png)}

NewBlocks == {ContentText("hi"), ContentImage(ImageContentFrom(Png))}

PriorTurns ==
    {AnthropicMessage("user", Single(ContentText("earlier"))),
     AnthropicMessage("assistant", Multiple(<<ContentText("a"), ContentText("b")>>))}

Conversations == {None} \cup {Some(c) : c \in Seqs(PriorTurns, MaxPrior)}

Constructed(feature) ==
    {AnthropicModel_new("sk-x", "2023-06-01", "claude-3")}
    \cup (IF feature
          THEN {AnthropicModel_bedrock("bedrock-2023-05-31", "anthropic.claude-3", None)}
          ELSE {})

NoCall == [op |-> "none"]

(***************************************************************************)
(* The state machine.                                                      *)
(***************************************************************************)
\* the environment the process runs in
Ambients ==
    [credentials : {"Environment", "SharedConfig", "Imds"},
     region : {None, Some("us-east-1")}]

DefaultAmbient == [credentials |-> "Environment", region |-> None]

\* the configurations handed to AnthropicModel::bedrock
AwsRegions == {None, Some("eu-west-1"), Some("us-east-1")}

AwsConfigs ==
    {None}
    \cup {Some(AwsConfig_Profile(n, r)) : n \in {"dev", "prod"}, r \in AwsRegions}
    \cup {Some(AwsConfig_Credential(a, k, r)) :
              a \in {None, Some("AKIA")}, k \in {None, Some("secret")},
              r \in AwsRegions}

\* the SdkConfig behind model m's client, if it has one
SdkConfigOf(m, env) ==
    IF m.variant = "Bedrock" THEN Some(bedrock_client(m.aws_config, env)) ELSE None

\* the arguments of the Prompt's constructor and mutators
PromptMessages == {MessageText("hi"), MessageText("more"), MessageImage(Png)}
PromptNumbers == {256, 1024}
PromptTemperatures == {10, 63}
PromptTexts == {"STOP", "END"}
PromptSystems == {"be terse", "be brief"}

\* the stop-sequence lists a model is configured with
StopLists == {<<"END">>, <<"STOP", "END">>}

\* the content that is rendered as text
ByteValues == {0, 1, 2, 255}

Renderables ==
    {MessageText(t) : t \in {"hi", "more", ""}}
    \cup {MessageImage(Image_new(m, b)) :
              m \in {"image/png", "image/jpeg"}, b \in Seqs(ByteValues, MaxBytes)}

\* nothing called yet, no outcome held
Idle ==
    /\ call = NoCall
    /\ request = None
    /\ wire = None
    /\ created = None
    /\ result = None
    /\ json_body = None
    /\ rendered = None

\* a model built by one of the constructors; nothing called yet
Init ==
    /\ feature_aws_bedrock \in BOOLEAN
    /\ payload = <<>>
    /\ decoded = Unconfigured
    /\ ambient = DefaultAmbient
    /\ \E m \in Constructed(feature_aws_bedrock) :
          /\ self = Some(m)
          /\ clients = {m.client}
          /\ sdk_config = SdkConfigOf(m, ambient)
    /\ prompt = PromptFrom(MessageText("hi"))
    /\ calls = <<Called("from", Some(MessageText("hi")), None, None)>>
    /\ Idle

\* a configuration map about to be decoded
InitDecode ==
    /\ feature_aws_bedrock \in BOOLEAN
    /\ payload \in Payloads
    /\ decoded = Unconfigured
    /\ ambient = DefaultAmbient
    /\ self = None
    /\ clients = {}
    /\ sdk_config = None
    /\ prompt = PromptFrom(MessageText("hi"))
    /\ calls = <<Called("from", Some(MessageText("hi")), None, None)>>
    /\ Idle

\* a Prompt just constructed from one turn; no model yet
InitPrompt ==
    /\ feature_aws_bedrock \in BOOLEAN
    /\ payload = <<>>
    /\ decoded = Unconfigured
    /\ ambient = DefaultAmbient
    /\ self = None
    /\ clients = {}
    /\ sdk_config = None
    /\ \E first \in PromptMessages :
          /\ prompt = PromptFrom(first)
          /\ calls = <<Called("from", Some(first), None, None)>>
    /\ Idle

\* a build with the aws-bedrock feature, in some environment; no model yet
InitBedrock ==
    /\ feature_aws_bedrock = TRUE
    /\ payload = <<>>
    /\ decoded = Unconfigured
    /\ ambient \in Ambients
    /\ self = None
    /\ clients = {}
    /\ sdk_config = None
    /\ prompt = PromptFrom(MessageText("hi"))
    /\ calls = <<Called("from", Some(MessageText("hi")), None, None)>>
    /\ Idle

\* content about to be rendered; no model yet
InitDisplay ==
    /\ feature_aws_bedrock \in BOOLEAN
    /\ payload = <<>>
    /\ decoded = Unconfigured
    /\ ambient = DefaultAmbient
    /\ self = None
    /\ clients = {}
    /\ sdk_config = None
    /\ prompt = PromptFrom(MessageText("hi"))
    /\ calls = <<Called("from", Some(MessageText("hi")), None, None)>>
    /\ Idle

\* AnthropicModel::deserialize
Deserialize ==
    /\ decoded.state = "Unconfigured"
    /\ self = None
    /\ \E runtime_ok \in BOOLEAN :
          LET outcome == visit_map(payload, feature_aws_bedrock, runtime_ok)
          IN  /\ decoded' = outcome
              /\ clients' = clients \cup outcome.built
              /\ self' = outcome.model
              /\ sdk_config' = IF IsSome(outcome.model)
                               THEN SdkConfigOf(Unwrap(outcome.model), ambient)
                               ELSE None
    /\ UNCHANGED <<feature_aws_bedrock, payload, prompt, call, request, wire,
                   created, result, json_body, calls, ambient, rendered>>

\* the builder methods take the model by value and give the new one
Configure(m) ==
    /\ call = NoCall
    /\ self' = Some(m)
    /\ UNCHANGED <<feature_aws_bedrock, payload, decoded, clients, prompt, call,
                   request, wire, created, result, json_body, calls, ambient,
                   sdk_config, rendered>>

SetMaxTokens == IsSome(self) /\ Configure(Model_max_tokens(Unwrap(self), 2048))
SetTemperature == IsSome(self) /\ Configure(Model_temperature(Unwrap(self), 10))
SetStopSequences ==
    /\ IsSome(self)
    /\ \E stop_sequences \in StopLists :
          Configure(Model_stop_sequences(Unwrap(self), stop_sequences))
SetSystem == IsSome(self) /\ Configure(Model_system(Unwrap(self), "be brief"))

\* AnthropicModel::create, called with new content and a prior conversation;
\* create reads nothing of a reply's content, so one block is enough here
Create ==
    /\ IsSome(self)
    /\ call = NoCall
    /\ \E messages \in Seqs(NewBlocks, MaxNew), conversation \in Conversations,
          response \in Responses(Unwrap(self), 1) :
          LET done == create(Unwrap(self), messages, conversation, response)
          IN  /\ call' = [op |-> "create", messages |-> messages,
                          conversation |-> conversation]
              /\ wire' = Some(response)
              /\ request' = Some(done.request)
              /\ json_body' = Some(done.body)
              /\ created' = Some(done.result)
    /\ result' = None
    /\ UNCHANGED <<feature_aws_bedrock, payload, decoded, clients, self, prompt,
                   calls, ambient, sdk_config, rendered>>

\* The facade (lib.rs 89-93) hands the adapter the caller's Prompt p; the
\* adapter's inference (anthropic.rs 521) has the parameters (prompt: &str,
\* image: Option<Image>) and nothing else, so text and image are all it reads.
Inference ==
    /\ IsSome(self)
    /\ call = NoCall
    /\ \E log \in PromptLogs, text \in {"hi"}, image \in ImageArgs,
          response \in Responses(Unwrap(self), MaxBlocks) :
          LET p == Replay(log)
              messages == InferenceContent(text, image)
              done == create(Unwrap(self), messages, None, response)
          IN  /\ prompt' = p
              /\ calls' = log
              /\ call' = [op |-> "inference", text |-> text, image |-> image,
                          messages |-> messages, conversation |-> None]
              /\ wire' = Some(response)
              /\ request' = Some(done.request)
              /\ json_body' = Some(done.body)
              /\ created' = Some(done.result)
              /\ result' = Some(InferenceResult(done.result))
    /\ UNCHANGED <<feature_aws_bedrock, payload, decoded, clients, self, ambient,
                   sdk_config, rendered>>

\* one more call in the chain that builds the Prompt
Mutate(c) ==
    /\ call = NoCall
    /\ Len(calls) < MaxCalls
    /\ prompt' = Apply(prompt, c)
    /\ calls' = Append(calls, c)
    /\ UNCHANGED <<feature_aws_bedrock, payload, decoded, clients, self, call,
                   request, wire, created, result, json_body, ambient,
                   sdk_config, rendered>>

AddMessage == \E m \in PromptMessages : Mutate(Called("add_message", Some(m), None, None))
PromptMaxTokens == \E n \in PromptNumbers : Mutate(Called("max_tokens", None, Some(n), None))
PromptTemperature ==
    \E t \in PromptTemperatures : Mutate(Called("temperature", None, Some(t), None))
PromptStopSequence ==
    \E t \in PromptTexts : Mutate(Called("stop_sequence", None, None, Some(t)))
PromptSystem == \E t \in PromptSystems : Mutate(Called("system", None, None, Some(t)))

\* AnthropicModel::bedrock: the client is built by bedrock_client(&aws_config)
Bedrock ==
    /\ feature_aws_bedrock
    /\ call = NoCall
    /\ \E aws_config \in AwsConfigs :
          LET m == AnthropicModel_bedrock("bedrock-2023-05-31", "anthropic.claude-3",
                                          aws_config)
          IN  /\ call' = [op |-> "bedrock", aws_config |-> aws_config]
              /\ sdk_config' = Some(bedrock_client(aws_config, ambient))
              /\ self' = Some(m)
              /\ clients' = clients \cup {m.client}
    /\ UNCHANGED <<feature_aws_bedrock, payload, decoded, prompt, request, wire,
                   created, result, json_body, calls, ambient, rendered>>

\* message.to_string()
Display ==
    /\ call = NoCall
    /\ \E message \in Renderables :
          /\ call' = [op |-> "to_string", message |-> message]
          /\ rendered' = Some(Message_fmt(message))
    /\ UNCHANGED <<feature_aws_bedrock, payload, decoded, clients, self, prompt,
                   request, wire, created, result, json_body, calls, ambient,
                   sdk_config>>

\* the caller is done with the outcome of its call
Return ==
    /\ call # NoCall
    /\ call' = NoCall
    /\ request' = None
    /\ wire' = None
    /\ created' = None
    /\ result' = None
    /\ json_body' = None
    /\ rendered' = None
    /\ UNCHANGED <<feature_aws_bedrock, payload, decoded, clients, self, prompt,
                   calls, ambient, sdk_config>>

Builders == SetMaxTokens \/ SetTemperature \/ SetStopSequences \/ SetSystem
Mutators ==
    AddMessage \/ PromptMaxTokens \/ PromptTemperature \/ PromptStopSequence
    \/ PromptSystem

Next == Builders \/ Inference \/ Return
NextCreate == Builders \/ Create \/ Return
NextDecode == Deserialize
NextPrompt == Mutators
NextBedrock == Bedrock \/ Return
NextDisplay == Display \/ Return

\* inference on a constructed and configured model
Spec == Init /\ [][Next]_vars
\* direct calls of create
SpecCreate == Init /\ [][NextCreate]_vars
\* decoding a declared configuration
SpecDecode == InitDecode /\ [][NextDecode]_vars
\* building a Prompt with the fluent mutators
SpecPrompt == InitPrompt /\ [][NextPrompt]_vars
\* constructing the Bedrock variant in an environment
SpecBedrock == InitBedrock /\ [][NextBedrock]_vars
\* rendering content as text
SpecDisplay == InitDisplay /\ [][NextDisplay]_vars

(***************************************************************************)
(* Properties of the configuration decoder, under SpecDecode.              *)
(***************************************************************************)
HasKey(map, key) == \E i \in 1..Len(map) : map[i].key = key

PayloadHasBoth == HasKey(payload, "api_key") /\ HasKey(payload, "aws_config")
PayloadHasNeither == ~HasKey(payload, "api_key") /\ ~HasKey(payload, "aws_config")

DecodeDone == decoded.state # "Unconfigured"

\* the entry at which the second of api_key and aws_config is met
SecondKeyAt(map) ==
    CHOOSE j \in 1..Len(map) :
        /\ HasKey(SubSeq(map, 1, j), "api_key")
        /\ HasKey(SubSeq(map, 1, j), "aws_config")
        /\ ~(HasKey(SubSeq(map, 1, j - 1), "api_key")
             /\ HasKey(SubSeq(map, 1, j - 1), "aws_config"))

\* the entries before j are known fields, each met once, each well typed
CleanBefore(map, j) ==
    /\ \A i \in 1..(j - 1) : map[i].key \in Field /\ map[i].valid
    /\ \A i1, i2 \in 1..(j - 1) : i1 # i2 => map[i1].key # map[i2].key

\* C1 as claimed: a payload with both api_key and aws_config always fails with
\* the mutual-exclusivity error, whatever else it holds, and builds no client.
C1_AlwaysExclusivityError ==
    (PayloadHasBoth /\ DecodeDone) =>
        /\ decoded.state = "Failed"
        /\ decoded.err = BothPresent
        /\ clients = {}

\* C1, amended: a payload with both api_key and aws_config always fails, yields
\* no backend and builds no client; the failure is the mutual-exclusivity error
\* exactly when the build has the aws-bedrock feature and every entry before
\* the second of the two keys is a known field, met once, with a well-typed
\* value (otherwise decoding has already stopped at that entry, or at
\* aws_config as an unknown field).
C1_BothKeysFail ==
    (PayloadHasBoth /\ DecodeDone) =>
        /\ decoded.state = "Failed"
        /\ decoded.model = None
        /\ self = None
        /\ clients = {}
        /\ (decoded.err = BothPresent) <=>
               (feature_aws_bedrock /\ CleanBefore(payload, SecondKeyAt(payload)))

C1_Witness ==
    /\ DecodeDone
    /\ feature_aws_bedrock
    /\ Len(payload) = 3
    /\ payload[1].key = "model"
    /\ payload[2].key = "aws_config"
    /\ payload[3].key = "api_key"
    /\ decoded.err = BothPresent

\* C2 as claimed: a payload with neither api_key nor aws_config ends in
\* failure, whatever its other fields.
C2_NeitherFailsClosed ==
    (PayloadHasNeither /\ DecodeDone) => decoded.state = "Failed"

\* C2, amended: a payload with neither api_key nor aws_config never reaches
\* DirectApi-ready.  Built without the aws-bedrock feature, decoding fails and
\* builds no client.  Built with it, decoding reaches ManagedRuntime-ready with
\* no credential spec whenever its entries are known fields, each met once and
\* well typed, api_version and model among them, and the runtime starts; it
\* fails in every other case.
C2_NeitherKey ==
    (PayloadHasNeither /\ DecodeDone) =>
        /\ decoded.state # "DirectApiReady"
        /\ ~feature_aws_bedrock => (decoded.state = "Failed" /\ clients = {})
        /\ decoded.state = "ManagedRuntimeReady" =>
               /\ feature_aws_bedrock
               /\ CleanBefore(payload, Len(payload) + 1)
               /\ HasKey(payload, "api_version") /\ HasKey(payload, "model")
               /\ Unwrap(self).variant = "Bedrock"
               /\ Unwrap(self).aws_config = None
               /\ clients = {"bedrock"}
        /\ (/\ feature_aws_bedrock
            /\ CleanBefore(payload, Len(payload) + 1)
            /\ HasKey(payload, "api_version") /\ HasKey(payload, "model")) =>
               \/ decoded.state = "ManagedRuntimeReady"
               \/ decoded.err = DeError("custom", "runtime")

C2_Witness ==
    /\ PayloadHasNeither
    /\ Len(payload) = 3
    /\ decoded.state = "ManagedRuntimeReady"

(***************************************************************************)
(* Properties of inference, under Spec.                                    *)
(***************************************************************************)
Inferred == call.op = "inference"
Model == Unwrap(self)
Reply == Unwrap(wire)
Outcome == Unwrap(result)
Direct == Model.variant = "Anthropic"

TransportFailed == Inferred /\ ~Reply.sent
TransportOk == Inferred /\ Reply.sent

\* create reads the body: always on the managed-runtime path, and on the
\* direct path under status 200, 4xx or 5xx
BodyRead == TransportOk /\ (Direct => (Reply.status = 200 \/ Reply.status \in 400..599))

\* create may return the body's message: the direct path needs status 200
Delivered == TransportOk /\ (Direct => Reply.status = 200)

IsErrorEnvelope(body) == body.json /\ body.type = "error" /\ IsSome(body.error)

IsMessageEnvelope(body) ==
    /\ body.json /\ body.type = "message" /\ body.head /\ IsSome(body.content)
    /\ \A i \in 1..Len(Unwrap(body.content)) :
           Unwrap(body.content)[i].type \in {"text", "image"}

ReplyContent == Unwrap(Reply.body.content)

ErrorClass == Unwrap(Outcome.error).variant

\* the error classes of the taxonomy that stand for a payload that failed
\* to decode
DecodeClass == {"Decode", "ImageDecode"}

\* C3: when the transport succeeds and the body create decodes is an error
\* envelope, inference returns ModelResponse carrying exactly the envelope's
\* message, on the direct path (status 200, 4xx, 5xx: the statuses under which
\* the body is decoded at all) and on the managed-runtime path.
C3_EnvelopeMessageVerbatim ==
    (BodyRead /\ IsErrorEnvelope(Reply.body)) =>
        Outcome = [ok |-> FALSE, message |-> None,
                   error |-> Some([variant |-> "ModelResponse",
                                   text |-> Unwrap(Reply.body.error).message])]

C3_Witness ==
    /\ BodyRead /\ IsErrorEnvelope(Reply.body)
    /\ Direct /\ Reply.status = 529
    /\ Unwrap(Reply.body.error).type = "overloaded_error"
    /\ ErrorClass = "ModelResponse"
    /\ Unwrap(Outcome.error).text = "busy"

Undecodable(body) == ~IsErrorEnvelope(body) /\ ~IsMessageEnvelope(body)

FirstIsBadImage ==
    /\ Delivered /\ IsMessageEnvelope(Reply.body)
    /\ Len(ReplyContent) >= 1
    /\ ReplyContent[1].type = "image"
    /\ ~Base64Decode(Unwrap(ReplyContent[1].source).data).ok

\* C6: when the first content block of a successful message envelope is an
\* image whose base64 payload fails to decode, inference returns the Decode
\* error class, not a Message and no other error.
C6_BadImageIsDecodeError ==
    FirstIsBadImage =>
        /\ ~Outcome.ok
        /\ ErrorClass \in DecodeClass

\* C7: a successful message envelope with an empty content list makes
\* inference return Unexpected("no-content"), never a Message.
C7_EmptyContent ==
    (Delivered /\ IsMessageEnvelope(Reply.body) /\ ReplyContent = <<>>) =>
        Outcome = [ok |-> FALSE, message |-> None,
                   error |-> Some([variant |-> "Unexpected", text |-> "no-content"])]

C7_Witness ==
    /\ Delivered /\ IsMessageEnvelope(Reply.body) /\ ReplyContent = <<>>
    /\ Direct
    /\ ~Outcome.ok

\* what a reply whose first block is b makes inference return, if a Message
MessageOfBlock(b) ==
    IF b.type = "text" THEN [type |-> "text", text |-> b.text, image |-> None]
    ELSE [type |-> "image", text |-> "",
          image |-> Some([media_type |-> Unwrap(b.source).media_type,
                          data |-> Base64Decode(Unwrap(b.source).data).data])]

\* C8: for a successful message envelope with at least one block, the first
\* block alone decides what inference returns: a text block gives
\* Message::Text with its text, an image block whose payload decodes gives
\* that image, and the blocks after the first change nothing.
C8_FirstBlockOnly ==
    (Delivered /\ IsMessageEnvelope(Reply.body) /\ Len(ReplyContent) >= 1) =>
        IF FirstIsBadImage THEN ~Outcome.ok
        ELSE Outcome = [ok |-> TRUE, message |-> Some(MessageOfBlock(ReplyContent[1])),
                        error |-> None]

C8_Witness ==
    /\ Delivered /\ IsMessageEnvelope(Reply.body)
    /\ Len(ReplyContent) = 2
    /\ ReplyContent[1] = ContentText("hello")
    /\ ReplyContent[2].type = "image"
    /\ Outcome.ok
    /\ Unwrap(Outcome.message).text = "hello"

\* C9: the wire request of an inference carries the generation settings of
\* the Prompt it was called with: max_tokens, temperature, stop_sequences and
\* system are the Prompt's.
C9_RequestCarriesPrompt ==
    Inferred =>
        /\ Unwrap(request).max_tokens = prompt.max_tokens
        /\ Unwrap(request).temperature = prompt.temperature
        /\ Unwrap(request).stop_sequences = prompt.stop_sequences
        /\ Unwrap(request).system = prompt.system

(***************************************************************************)
(* Properties of create, under SpecCreate.                                 *)
(***************************************************************************)
Created == call.op = "create"
Prior == IF IsSome(call.conversation) THEN Unwrap(call.conversation) ELSE <<>>
Sent == Unwrap(request).messages

Marshaled == Unwrap(json_body)
Configured == Unwrap(self).stop_sequences

\* C11: the marshaled request has a stop_sequences field if and only if the
\* configured stop-sequence list is non-empty; the field, when there, is the
\* configured list in its order, and is never an empty list.
C11_StopSequencesField ==
    IsSome(json_body) =>
        /\ "stop_sequences" \in DOMAIN Marshaled <=> Configured # <<>>
        /\ "stop_sequences" \in DOMAIN Marshaled =>
               /\ Marshaled["stop_sequences"] = Configured
               /\ Len(Marshaled["stop_sequences"]) > 0

C11_Witness ==
    /\ Created
    /\ IsSome(json_body)
    /\ "stop_sequences" \in DOMAIN Marshaled
    /\ Marshaled["stop_sequences"] = <<"STOP", "END">>

(***************************************************************************)
(* Properties of the Prompt's mutators, under SpecPrompt.                  *)
(***************************************************************************)
IsAddMessage(c) == c.op = "add_message"
\* the add_message calls of the chain, in call order
Added == SelectSeq(Tail(calls), IsAddMessage)
FirstTurn == Unwrap(calls[1].message)

\* C12: whatever chain of mutator calls follows the constructor, messages is
\* the first turn followed by the arguments of the add_message calls in call
\* order, however the other mutators are interleaved; the message appended
\* last is last.
C12_MessagesInCallOrder ==
    /\ prompt.messages =
           <<FirstTurn>> \o [i \in 1..Len(Added) |-> Unwrap(Added[i].message)]
    /\ Len(Added) > 0 =>
           prompt.messages[Len(prompt.messages)] = Unwrap(Added[Len(Added)].message)

C12_Witness ==
    /\ Len(calls) = 4
    /\ calls[2].op = "add_message"
    /\ calls[3].op = "stop_sequence"
    /\ calls[4].op = "add_message"
    /\ calls[2].message # calls[4].message
    /\ calls[2].message # calls[1].message
    /\ Len(prompt.messages) = 3

\* the last call of the chain, and the fields of a Prompt
LastCall == calls[Len(calls)]
PromptFields == {"messages", "max_tokens", "temperature", "stop_sequences", "system"}

\* the field a mutator is for, and the value the call gives it
OwnField(c) ==
    CASE c.op = "add_message" -> "messages"
      [] c.op = "max_tokens" -> "max_tokens"
      [] c.op = "temperature" -> "temperature"
      [] c.op = "stop_sequence" -> "stop_sequences"
      [] c.op = "system" -> "system"

\* C13: a mutator call returns a Prompt whose own field holds the call's
\* effect (the argument appended for add_message and stop_sequence, the
\* argument set for max_tokens, temperature and system) and whose other four
\* fields are those of the Prompt it took.
C13_MutatorFrame ==
    [][calls' = Append(calls, LastCall') =>
          /\ \A f \in PromptFields \ {OwnField(LastCall')} : prompt'[f] = prompt[f]
          /\ LastCall'.op = "add_message" =>
                 prompt'.messages = Append(prompt.messages, Unwrap(LastCall'.message))
          /\ LastCall'.op = "stop_sequence" =>
                 prompt'.stop_sequences =
                     Append(prompt.stop_sequences, Unwrap(LastCall'.text))
          /\ LastCall'.op = "max_tokens" =>
                 prompt'.max_tokens = Unwrap(LastCall'.number)
          /\ LastCall'.op = "temperature" =>
                 prompt'.temperature = Unwrap(LastCall'.number)
          /\ LastCall'.op = "system" =>
                 prompt'.system = Some(Unwrap(LastCall'.text))]_vars

\* system called on a Prompt whose other four fields are all off their defaults
C13_Witness ==
    /\ Len(calls) = 4
    /\ calls[2].op = "stop_sequence"
    /\ calls[3].op = "max_tokens"
    /\ LastCall.op = "system"
    /\ prompt.system = LastCall.text
    /\ prompt.stop_sequences = <<Unwrap(calls[2].text)>>
    /\ prompt.max_tokens = 256

(***************************************************************************)
(* Properties of credential resolution, under SpecBedrock.                 *)
(***************************************************************************)
Resolving == call.op = "bedrock"
Resolved == Unwrap(sdk_config)
Given == Unwrap(call.aws_config)
IsProfile == IsSome(call.aws_config) /\ Given.kind = "Profile"
IsExplicit == IsSome(call.aws_config) /\ Given.kind = "Credential"
\* the credentials and region of the environment, as an absent spec gives them
AmbientCredentials ==
    /\ Resolved.credentials.provider = "DefaultChain"
    /\ Resolved.credentials.origin = ambient.credentials
AmbientUnchanged == AmbientCredentials /\ Resolved.region = ambient.region

\* C14: a Profile spec gives the named profile as the credential source; an
\* Explicit spec with both keys a static provider of that key pair; an
\* Explicit spec with no key and a region the ambient credentials; an Explicit
\* spec with nothing, and an absent spec, the ambient credentials and region
\* unchanged.  With a Profile or Explicit spec the region is the spec's
\* region when it has one, and the ambient region when it has none.
C14_CredentialResolution ==
    Resolving =>
        /\ IsProfile =>
               /\ Resolved.credentials.provider = "ProfileFile"
               /\ Resolved.credentials.profile_name = Given.profile_name
        /\ IsExplicit /\ IsSome(Given.access_key) /\ IsSome(Given.secret_key) =>
               /\ Resolved.credentials.provider = "Static"
               /\ Resolved.credentials.access_key = Given.access_key
               /\ Resolved.credentials.secret_key = Given.secret_key
        /\ IsExplicit /\ ~IsSome(Given.access_key) /\ ~IsSome(Given.secret_key)
              /\ IsSome(Given.region) => AmbientCredentials
        /\ IsExplicit /\ ~IsSome(Given.access_key) /\ ~IsSome(Given.secret_key)
              /\ ~IsSome(Given.region) => AmbientUnchanged
        /\ ~IsSome(call.aws_config) => AmbientUnchanged
        /\ IsProfile \/ IsExplicit =>
               Resolved.region =
                   IF IsSome(Given.region) THEN Given.region ELSE ambient.region

\* an Explicit spec with both keys and a region, in an environment that has
\* another region of its own
C14_Witness ==
    /\ Resolving
    /\ IsExplicit
    /\ IsSome(Given.access_key) /\ IsSome(Given.secret_key)
    /\ Given.region = Some("eu-west-1")
    /\ ambient.region = Some("us-east-1")
    /\ Resolved.region = Some("eu-west-1")
    /\ Resolved.credentials.provider = "Static"

(***************************************************************************)
(* Properties of the text rendering of content, under SpecDisplay.         *)
(***************************************************************************)
Rendering == call.op = "to_string"
\* the data URI of media type m and bytes b: "data:" m ";base64," base64(b)
DataUri(m, b) ==
    <<"d", "a", "t", "a", ":">>
    \o Chars(m)
    \o <<";", "b", "a", "s", "e", "6", "4", ",">>
    \o EncodedText(Base64Encode(b))

\* C15: an image of media type m and bytes b renders as "data:" m ";base64,"
\* base64(b) with nothing between the parts, and a text turn renders as its
\* text.
C15_RendersAsDataUri ==
    Rendering =>
        Unwrap(rendered) =
            IF call.message.type = "image"
            THEN DataUri(Unwrap(call.message.image).media_type,
                         Unwrap(call.message.image).data)
            ELSE Chars(call.message.text)

(***************************************************************************)
(* Properties of create's status classification, under SpecCreate.         *)
(***************************************************************************)
\* create was called on the direct path and the request got an HTTP answer
Answered == Created /\ Direct /\ Unwrap(wire).sent
Status == Unwrap(wire).status
IsErrorStatus == (Status >= 400 /\ Status < 600)
CreatedValue == Unwrap(created)
MessageArrived == IsMessageEnvelope(Unwrap(wire).body)

\* C16: on the direct path create returns a success value only when the
\* status is 200 and the body decodes as a message envelope, and then it
\* does; a message envelope under a 4xx or 5xx status is an error; a status
\* that is neither 200 nor 4xx/5xx is the invalid-status error carrying the
\* status text, whatever the body is.
C16_SuccessOnly200 ==
    Answered =>
        /\ CreatedValue.ok <=> (Status = 200 /\ MessageArrived)
        /\ IsErrorStatus /\ MessageArrived =>
               /\ ~CreatedValue.ok
               /\ Unwrap(CreatedValue.error).error_type = "invalid_response_error"
        /\ Status # 200 /\ ~IsErrorStatus =>
               CreatedValue = CreateErr(AnthropicErrorResponse("invalid_status_error",
                                                               StatusText(Status)))

\* a well-formed message envelope answered with 204
C16_Witness ==
    /\ Answered
    /\ Status = 204
    /\ MessageArrived
    /\ ~CreatedValue.ok
    /\ Unwrap(CreatedValue.error).error_type = "invalid_status_error"

====
